---- MODULE Spec2Model ----
(***************************************************************************)
(* WeatherCloud uploader for weewx (bin/user/wcloud.py).                   *)
(*                                                                         *)
(* The service (WeatherCloud) is constructed by the host with a           *)
(* configuration; if the account id and key are there it creates the      *)
(* delivery queue, starts the upload thread (WeatherCloudThread) and      *)
(* binds new_archive_record to the host's archive event.  The thread      *)
(* specialises the host's RESTThread with get_record (derived            *)
(* quantities) and format_url (the wire request).                         *)
(*                                                                         *)
(* Conventions of the model                                                *)
(*  - a Python value that may be None is <<>> (None) or <<v>>;            *)
(*  - a dict is a function whose DOMAIN is the set of its keys;           *)
(*  - an observation is a Python float, an IEEE 754 double with its       *)
(*    rounding: D(21,5) is float('21.5'), N(360) is 360.0, and 0.1 + 4.6  *)
(*    is 4.699999999999999; an int among the observations (a battery      *)
(*    status) is the float of the same value;                             *)
(*  - a timestamp and the options of the configuration that count         *)
(*    (post_interval, max_tries, ...) are integers;                       *)
(*  - a Python string is a string, read character by character with      *)
(*    Head, Tail and SubSeq; the characters are those of Ascii and        *)
(*    AsciiLower below.                                                   *)
(***************************************************************************)
EXTENDS Integers, Sequences, FiniteSets, TLC

None == <<>>
Some(x) == <<x>>
Val(o) == o[1]

\* the element of a set of one element.  The({e : x \in {v}}) is e with x
\* standing for the value of v, computed once
The(S) == CHOOSE x \in S : TRUE

(***************************************************************************)
(* Natural numbers of any size: the digits of base 2^14, least significant *)
(* first, no leading zero digit (0 is <<>>).                               *)
(***************************************************************************)

Base == 16384
LimbBits == 14

RECURSIVE Pow2(_)
Pow2(n) == IF n = 0 THEN 1 ELSE 2 * Pow2(n - 1)

RECURSIVE Big(_)
Big(n) == IF n = 0 THEN <<>> ELSE <<n % Base>> \o Big(n \div Base)

RECURSIVE Norm(_)
Norm(a) ==
    IF a = <<>> THEN a
    ELSE IF a[Len(a)] = 0 THEN Norm(SubSeq(a, 1, Len(a) - 1))
    ELSE a

RECURSIVE BAddC(_, _, _)
BAddC(a, b, c) ==
    IF a = <<>> /\ b = <<>> THEN (IF c = 0 THEN <<>> ELSE <<c>>)
    ELSE LET x == (IF a = <<>> THEN 0 ELSE a[1]) + (IF b = <<>> THEN 0 ELSE b[1]) + c
         IN <<x % Base>> \o BAddC(IF a = <<>> THEN a ELSE Tail(a),
                                  IF b = <<>> THEN b ELSE Tail(b), x \div Base)

BAdd(a, b) == BAddC(a, b, 0)

\* a - b for a >= b
RECURSIVE BSubC(_, _, _)
BSubC(a, b, c) ==
    IF a = <<>> THEN <<>>
    ELSE LET x == a[1] - (IF b = <<>> THEN 0 ELSE b[1]) - c
         IN <<x % Base>> \o BSubC(Tail(a), IF b = <<>> THEN b ELSE Tail(b),
                                  IF x < 0 THEN 1 ELSE 0)

BSub(a, b) == Norm(BSubC(a, b, 0))

RECURSIVE BCmpTop(_, _, _)
BCmpTop(a, b, i) ==
    IF i = 0 THEN 0
    ELSE IF a[i] < b[i] THEN 0 - 1
    ELSE IF a[i] > b[i] THEN 1
    ELSE BCmpTop(a, b, i - 1)

\* -1, 0 or 1 as a < b, a = b or a > b
BCmp(a, b) ==
    IF Len(a) < Len(b) THEN 0 - 1
    ELSE IF Len(a) > Len(b) THEN 1
    ELSE BCmpTop(a, b, Len(a))

\* a * k + c for 0 <= k, c < 2^16
RECURSIVE BMulSmall(_, _, _)
BMulSmall(a, k, c) ==
    IF a = <<>> THEN Big(c)
    ELSE LET x == a[1] * k + c
         IN <<x % Base>> \o BMulSmall(Tail(a), k, x \div Base)

RECURSIVE BMul(_, _)
BMul(a, b) ==
    IF a = <<>> \/ b = <<>> THEN <<>>
    ELSE The({BAdd(Norm(BMulSmall(a, b[1], 0)),
                   IF rest = <<>> THEN rest ELSE <<0>> \o rest) :
              rest \in {BMul(a, Tail(b))}})

\* quotient and remainder of a by k, 0 < k < 2^16; the quotient may have
\* leading zero digits
RECURSIVE BDivSmallRec(_, _)
BDivSmallRec(a, k) ==
    IF a = <<>> THEN [q |-> <<>>, r |-> 0]
    ELSE The({LET x == hi.r * Base + a[1]
              IN [q |-> <<x \div k>> \o hi.q, r |-> x % k] :
              hi \in {BDivSmallRec(Tail(a), k)}})

BDivSmall(a, k) ==
    The({[q |-> Norm(d.q), r |-> Big(d.r)] : d \in {BDivSmallRec(a, k)}})

\* a * 2^n
ShiftLeft(a, n) ==
    IF a = <<>> THEN a
    ELSE [i \in 1..(n \div LimbBits) |-> 0] \o Norm(BMulSmall(a, Pow2(n % LimbBits), 0))

\* floor(a / 2^n)
ShiftRight(a, n) ==
    IF n \div LimbBits >= Len(a) THEN <<>>
    ELSE BDivSmall(SubSeq(a, n \div LimbBits + 1, Len(a)), Pow2(n % LimbBits)).q

RECURSIVE BitLen(_)
BitLen(x) == IF x = 0 THEN 0 ELSE 1 + BitLen(x \div 2)

\* the number of binary digits of a
BitLength(a) ==
    IF a = <<>> THEN 0 ELSE LimbBits * (Len(a) - 1) + BitLen(a[Len(a)])

RECURSIVE LowZeros(_)
LowZeros(x) == IF x % 2 = 1 THEN 0 ELSE 1 + LowZeros(x \div 2)

\* the number of zero binary digits at the low end of a # 0
RECURSIVE TrailingZeros(_)
TrailingZeros(a) ==
    IF a[1] = 0 THEN LimbBits + TrailingZeros(Tail(a)) ELSE LowZeros(a[1])

IsOdd(a) == a # <<>> /\ a[1] % 2 = 1

\* the largest digit d in lo..hi with b * d <= r (b * lo <= r)
RECURSIVE FindDigit(_, _, _, _)
FindDigit(r, b, lo, hi) ==
    IF lo = hi THEN lo
    ELSE LET mid == (lo + hi + 1) \div 2
         IN IF BCmp(Norm(BMulSmall(b, mid, 0)), r) <= 0
            THEN FindDigit(r, b, mid, hi)
            ELSE FindDigit(r, b, lo, mid - 1)

\* quotient and remainder of a by b # 0, one digit of the quotient at a
\* time from the top; the quotient may have leading zero digits
RECURSIVE BDivLongRec(_, _)
BDivLongRec(a, b) ==
    IF a = <<>> THEN [q |-> <<>>, r |-> <<>>]
    ELSE The({The({The({[q |-> <<d>> \o hi.q,
                         r |-> BSub(cur, Norm(BMulSmall(b, d, 0)))] :
                        d \in {FindDigit(cur, b, 0, Base - 1)}}) :
                   cur \in {Norm(<<a[1]>> \o hi.r)}}) :
              hi \in {BDivLongRec(Tail(a), b)}})

BDivLong(a, b) ==
    The({[q |-> Norm(d.q), r |-> d.r] : d \in {BDivLongRec(a, b)}})

BDivMod(a, b) ==
    IF Len(b) = 1 \/ (Len(b) = 2 /\ b[2] < 4) THEN BDivSmall(a, b[1] + (IF Len(b) = 2 THEN Base * b[2] ELSE 0))
    ELSE BDivLong(a, b)

\* the decimal digits of a
RECURSIVE Digits(_)
Digits(a) ==
    IF a = <<>> THEN ""
    ELSE The({Digits(d.q) \o ToString(IF d.r = <<>> THEN 0 ELSE d.r[1]) :
              d \in {BDivSmall(a, 10)}})

Decimal(a) == IF a = <<>> THEN "0" ELSE Digits(a)

(***************************************************************************)
(* Python floats: IEEE 754 binary64.  A float is sign, mantissa and        *)
(* exponent, (-1)^sign * man * 2^exp, with man odd and below 2^53 (so      *)
(* equal numbers are equal records) or man = 0 for the two zeros.  Every   *)
(* operation computes the exact result and rounds it to 53 binary digits,  *)
(* ties to even.  Subnormal numbers, infinities and NaN are beyond the     *)
(* magnitudes of weather observations and are not represented.             *)
(***************************************************************************)

Precision == 53

Canon(sign, man, exp) ==
    IF man = <<>> THEN [sign |-> sign, man |-> <<>>, exp |-> 0]
    ELSE The({[sign |-> sign, man |-> ShiftRight(man, t), exp |-> exp + t] :
              t \in {TrailingZeros(man)}})

\* (-1)^sign * man * 2^exp (or, with sticky, a number just above it in
\* magnitude) rounded to the nearest float, ties to even
Round(sign, man, exp, sticky) ==
    The({IF len <= Precision THEN Canon(sign, man, exp)
         ELSE The({The({LET up == c > 0 \/ (c = 0 /\ (sticky \/ IsOdd(q)))
                        IN Canon(sign, IF up THEN BAdd(q, <<1>>) ELSE q,
                                 exp + (len - Precision)) :
                        c \in {BCmp(BSub(man, ShiftLeft(q, len - Precision)),
                                    ShiftLeft(<<1>>, len - Precision - 1))}}) :
                   q \in {ShiftRight(man, len - Precision)}}) :
         len \in {BitLength(man)}})

Abs(x) == IF x < 0 THEN 0 - x ELSE x

\* float(i) of an int i
N(i) == Canon(IF i < 0 THEN 1 ELSE 0, Big(Abs(i)), 0)

Neg(x) == [x EXCEPT !.sign = 1 - x.sign]

Add(x, y) ==
    The({The({LET c == BCmp(a, b)
              IN IF x.sign = y.sign THEN Round(x.sign, BAdd(a, b), e, FALSE)
                 ELSE IF c = 0 THEN Canon(0, <<>>, 0)
                 ELSE IF c > 0 THEN Round(x.sign, BSub(a, b), e, FALSE)
                 ELSE Round(y.sign, BSub(b, a), e, FALSE) :
              a \in {ShiftLeft(x.man, x.exp - e)},
              b \in {ShiftLeft(y.man, y.exp - e)}}) :
         e \in {IF x.exp < y.exp THEN x.exp ELSE y.exp}})

Sub(x, y) == Add(x, Neg(y))

Mul(x, y) ==
    Round((x.sign + y.sign) % 2, BMul(x.man, y.man), x.exp + y.exp, FALSE)

\* x / y for y # 0: enough binary digits of the quotient to round, the
\* remainder says whether digits follow
Div(x, y) ==
    The({The({Round((x.sign + y.sign) % 2, d.q, x.exp - k - y.exp, d.r # <<>>) :
              d \in {BDivMod(ShiftLeft(x.man, k), y.man)}}) :
         k \in {LET need == Precision + 2 + BitLength(y.man) - BitLength(x.man)
                IN IF need > 0 THEN need ELSE 0}})

\* -1, 0 or 1 as x < y, x == y or x > y
Sgn(x) == IF x.man = <<>> THEN 0 ELSE 1 - 2 * x.sign

Cmp(x, y) ==
    IF Sgn(x) # Sgn(y) THEN (IF Sgn(x) < Sgn(y) THEN 0 - 1 ELSE 1)
    ELSE LET e == IF x.exp < y.exp THEN x.exp ELSE y.exp
         IN Sgn(x) * BCmp(ShiftLeft(x.man, x.exp - e), ShiftLeft(y.man, y.exp - e))

Eq(x, y) == Cmp(x, y) = 0
Gt(x, y) == Cmp(x, y) > 0
Ge(x, y) == Cmp(x, y) >= 0
Lt(x, y) == Cmp(x, y) < 0
Le(x, y) == Cmp(x, y) <= 0

\* the float of the decimal literal n / d, d a power of ten (float('1.015')
\* is Float(1015, 1000)): the quotient of two exact floats, rounded once
Float(n, d) == Div(N(n), N(d))

\* the float of the literal i.t, one decimal
D(i, t) == Float(i * 10 + t, 10)

\* dict.get(key): the value, or None when the key is absent
Get(d, k) == IF k \in DOMAIN d THEN d[k] ELSE None

\* d with d[k] = v set (insert or overwrite)
Put(d, k, v) == [f \in (DOMAIN d) \cup {k} |-> IF f = k THEN v ELSE d[f]]

\* the running sum of AVG: 0.0, then each value added in the order of the rows
RECURSIVE SumSeq(_)
SumSeq(s) ==
    IF s = <<>> THEN N(0)
    ELSE Add(SumSeq(SubSeq(s, 1, Len(s) - 1)), s[Len(s)])

RECURSIVE MaxSeq(_)
MaxSeq(s) == IF Len(s) = 1 THEN s[1]
             ELSE The({IF Ge(s[1], m) THEN s[1] ELSE m : m \in {MaxSeq(Tail(s))}})

\* the i-th character of a string
Char(s, i) == SubSeq(s, i, i)

\* the printable ASCII characters from code 32 (space) to 95 (_) and from 97
\* (a) to 126 (~).  The grave accent (96) cannot be written in a string of
\* this notation, and characters beyond ASCII are not kept apart by the
\* checker, so texts are over these 94 characters.
Ascii == " !\"#$%&'()*+,-./0123456789:;<=>?@ABCDEFGHIJKLMNOPQRSTUVWXYZ[\\]^_"
AsciiLower == "abcdefghijklmnopqrstuvwxyz{|}~"

\* the place of the character c in the string s, 0 if it is not there
IndexOf(c, s) ==
    IF \E i \in 1..Len(s) : Char(s, i) = c
    THEN CHOOSE i \in 1..Len(s) : Char(s, i) = c
    ELSE 0

\* ord(c)
CharCode(c) ==
    CASE IndexOf(c, Ascii) > 0 -> 31 + IndexOf(c, Ascii)
      [] IndexOf(c, AsciiLower) > 0 -> 96 + IndexOf(c, AsciiLower)

\* chr(code)
CharOf(code) ==
    CASE code >= 32 /\ code <= 95 -> Char(Ascii, code - 31)
      [] code >= 97 /\ code <= 126 -> Char(AsciiLower, code - 96)

HexDigits == "0123456789ABCDEF"

\* '%02X' % byte
Hex2(byte) == Char(HexDigits, byte \div 16 + 1) \o Char(HexDigits, (byte % 16) + 1)

(***************************************************************************)
(* Module-level helpers of wcloud.py                                       *)
(***************************************************************************)

\* A Python int that may be as large as sys.maxsize is held as three digits
\* of base 2^21, most significant first.
Limb == 2097152

\* the int n (0 <= n < 2^31)
PyInt(n) == <<0, n \div Limb, n % Limb>>

IntLess(a, b) ==
    \/ a[1] < b[1]
    \/ a[1] = b[1] /\ a[2] < b[2]
    \/ a[1] = b[1] /\ a[2] = b[2] /\ a[3] < b[3]

IntLe(a, b) == a = b \/ IntLess(a, b)

\* sys.maxsize of a 64-bit build: 2^63 - 1 = 9223372036854775807
MAXSIZE == <<Limb - 1, Limb - 1, Limb - 1>>

VERSION == "0.12"

\* syslog.syslog(level, 'restx: WeatherCloud: %s' % msg): the line written
logmsg(level, msg) == [level |-> level, msg |-> "restx: WeatherCloud: " \o msg]
logdbg(msg) == logmsg("LOG_DEBUG", msg)
loginf(msg) == logmsg("LOG_INFO", msg)

\* a mutant of _invert: the status is passed through, not inverted
_invert_passthrough(x) == x

\* weewx uses a status of 1 to indicate failure, wcloud uses 0
_invert(x) ==
    IF x = None THEN None
    ELSE IF Eq(Val(x), N(0)) THEN Some(N(1))
    ELSE Some(N(0))

\* weewx.units.getStandardUnitType(unit_system, 'windSpeed')[0]
getStandardUnitType(unit_system, obs) ==
    CASE unit_system = "US" -> "mile_per_hour"
      [] unit_system = "METRIC" -> "km_per_hour"
      [] unit_system = "METRICWX" -> "meter_per_second"

\* weewx.units.convert((v, from_unit, group), to_unit)[0]: None stays None,
\* a speed is scaled (1 mph = 0.44704 m/s, 1 km/h = 1/3.6 m/s), a Fahrenheit
\* temperature becomes Celsius, inHg becomes mbar, inches and cm become mm
MeterPerSecondPerMph == Float(44704, 100000)
KmPerHourPerMeterPerSecond == Float(36, 10)
MbarPerInHg == Float(338639, 10000)
MmPerInch == Float(254, 10)

convert(v, from_unit, to_unit) ==
    IF v = None THEN None
    ELSE IF from_unit = to_unit THEN v
    ELSE CASE from_unit = "mile_per_hour" /\ to_unit = "meter_per_second" ->
                Some(Mul(Val(v), MeterPerSecondPerMph))
           [] from_unit = "km_per_hour" /\ to_unit = "meter_per_second" ->
                Some(Div(Val(v), KmPerHourPerMeterPerSecond))
           [] from_unit = "degree_F" /\ to_unit = "degree_C" ->
                Some(Div(Mul(Sub(Val(v), N(32)), N(5)), N(9)))
           [] from_unit = "inHg" /\ to_unit = "mbar" ->
                Some(Mul(Val(v), MbarPerInHg))
           [] from_unit = "inch" /\ to_unit = "mm" ->
                Some(Mul(Val(v), MmPerInch))
           [] from_unit = "cm" /\ to_unit = "mm" ->
                Some(Mul(Val(v), N(10)))

\* utility to convert to METRICWX windspeed
_convert_windspeed(v, from_unit_system) ==
    IF from_unit_system = None THEN None
    ELSE IF Val(from_unit_system) # "METRICWX"
         THEN convert(v, getStandardUnitType(Val(from_unit_system), "windSpeed"),
                      "meter_per_second")
         ELSE v

(***************************************************************************)
(* The archive database as the three queries see it: a table of rows       *)
(* [dateTime, windSpeed, windGust, windDir], each observation None or a   *)
(* number.  getSql returns the one row of an aggregate query, a 1-tuple   *)
(* whose column is None (SQL NULL) when no row of the window has a value. *)
(***************************************************************************)

RECURSIVE WindowValues(_, _, _, _)
WindowValues(rows, col, sts, ts) ==
    IF rows = <<>> THEN <<>>
    ELSE LET r == Head(rows)
             rest == WindowValues(Tail(rows), col, sts, ts)
         IN IF r.dateTime > sts /\ r.dateTime <= ts /\ r[col] # None
            THEN <<Val(r[col])>> \o rest
            ELSE rest

\* CASE WHEN windSpeed >= windGust THEN windSpeed ELSE windGust END: a
\* comparison with NULL is not true, so the ELSE column is taken
GustOrSpeed(r) ==
    IF r.windSpeed # None /\ r.windGust # None /\ Ge(Val(r.windSpeed), Val(r.windGust))
    THEN r.windSpeed
    ELSE r.windGust

\* SELECT AVG(col) FROM table WHERE dateTime>sts AND dateTime<=ts: the sum of
\* the values that are not NULL over their number
getSql_avg(dbm, col, sts, ts) ==
    The({IF vals = <<>> THEN <<None>>
         ELSE <<Some(Div(SumSeq(vals), N(Len(vals))))>> :
         vals \in {WindowValues(dbm.rows, col, sts, ts)}})

\* SELECT MAX(CASE ... END) FROM table WHERE dateTime>sts AND dateTime<=ts
getSql_maxgust(dbm, sts, ts) ==
    The({IF vals = <<>> THEN <<None>> ELSE <<Some(MaxSeq(vals))>> :
         vals \in {WindowValues([i \in 1..Len(dbm.rows) |->
                                    [dateTime |-> dbm.rows[i].dateTime,
                                     hi |-> GustOrSpeed(dbm.rows[i])]],
                                "hi", sts, ts)}})

\* the default of the interval parameter of the three window queries
DefaultInterval == 600

\* a mutant of _get_windavg: an empty window averages to zero
_get_windavg_zero(dbm, ts) ==
    The({IF val # None /\ val[1] # None THEN val[1] ELSE Some(N(0)) :
         val \in {getSql_avg(dbm, "windSpeed", ts - DefaultInterval, ts)}})

_get_windavg(dbm, ts) ==
    LET sts == ts - DefaultInterval
    IN The({IF val # None THEN val[1] ELSE None :
            val \in {getSql_avg(dbm, "windSpeed", sts, ts)}})

_get_windhi(dbm, ts) ==
    LET sts == ts - DefaultInterval
    IN The({IF val # None THEN val[1] ELSE None :
            val \in {getSql_maxgust(dbm, sts, ts)}})

_get_winddiravg(dbm, ts) ==
    LET sts == ts - DefaultInterval
    IN The({IF val # None THEN val[1] ELSE None :
            val \in {getSql_avg(dbm, "windDir", sts, ts)}})

(***************************************************************************)
(* The host's unit conversion and formulas used by get_record              *)
(***************************************************************************)

TemperatureFields ==
    {"outTemp", "inTemp", "windchill", "heatindex", "dewpoint", "extraTemp1",
     "extraTemp2", "extraTemp3", "leafTemp1", "leafTemp2", "soilTemp1",
     "soilTemp2", "soilTemp3", "soilTemp4", "heatingTemp4"}
SpeedFields == {"windSpeed", "windGust"}
PressureFields == {"barometer"}
RainFields == {"dayRain", "ET", "rainRate"}

\* the unit of an observation in a unit system (weewx.units.StdUnitConverters)
UnitOf(field, unit_system) ==
    CASE field \in TemperatureFields ->
            IF unit_system = "US" THEN "degree_F" ELSE "degree_C"
      [] field \in SpeedFields -> getStandardUnitType(unit_system, "windSpeed")
      [] field \in PressureFields ->
            IF unit_system = "US" THEN "inHg" ELSE "mbar"
      [] field \in RainFields ->
            (CASE unit_system = "US" -> "inch"
               [] unit_system = "METRIC" -> "cm"
               [] unit_system = "METRICWX" -> "mm")
      [] OTHER -> "unitless"

\* weewx.units.to_METRICWX(rec): a new dict, every observation converted to
\* its METRICWX unit, None kept as None, usUnits set to METRICWX.  A record
\* without 'usUnits' raises KeyError (see get_record).
to_METRICWX(rec) ==
    LET us == Val(rec["usUnits"])
    IN [f \in DOMAIN rec |->
          IF f = "usUnits" THEN Some("METRICWX")
          ELSE IF f = "dateTime" THEN rec[f]
          ELSE convert(rec[f], UnitOf(f, us), UnitOf(f, "METRICWX"))]

\* weewx.wxformulas.heatindexC(T_C, R): None if an input is None; below
\* 80 F (26.7 C) or 40 % humidity the heat index is the temperature itself
\* (the regime of the model's inputs).
heatindexC(T, R) ==
    IF T = None \/ R = None THEN None
    ELSE CASE Lt(Val(T), D(26, 7)) \/ Lt(Val(R), N(40)) -> T

\* weewx.wxformulas.dewpointC(T_C, R): None if an input is None; the Magnus
\* formula, tabulated to four decimals at the model's inputs (21.5 C, 55 %
\* -> 12.0716 C; 21.5 F is (21.5 - 32) * 5 / 9 C, 55 % -> -13.4072 C).
dewpointC(T, R) ==
    IF T = None \/ R = None THEN None
    ELSE CASE Val(T) = D(21, 5) /\ Val(R) = N(55) -> Some(Float(120716, 10000))
           [] Val(T) = Div(Mul(Sub(D(21, 5), N(32)), N(5)), N(9)) /\ Val(R) = N(55) ->
                Some(Float(0 - 134072, 10000))

\* RESTThread.get_record(record, dbm): the host's base method hands back a
\* copy of the record for the subclass to extend
RESTThread_get_record(record, dbm) == record

\* weeutil.weeutil.to_bool on a boolean
to_bool(x) == x

(***************************************************************************)
(* WeatherCloudThread.get_record                                           *)
(***************************************************************************)

Raised(exc) == [ok |-> FALSE, exc |-> exc]
Returned(v) == [ok |-> TRUE, val |-> v]

\* ensure wind direction is in [0,359]
NormalizeWindDir(d) ==
    IF d # None /\ Gt(Val(d), N(359)) THEN Some(Sub(Val(d), N(360))) ELSE d

BatteryMap ==
    << <<"txBatteryStatus", "bat01">>, <<"windBatteryStatus", "bat02">>,
       <<"rainBatteryStatus", "bat03">>, <<"outTempBatteryStatus", "bat04">>,
       <<"inTempBatteryStatus", "bat05">> >>

RECURSIVE SetBatteries(_, _, _)
SetBatteries(rec, record, i) ==
    IF i > Len(BatteryMap) THEN rec
    ELSE LET src == BatteryMap[i][1]
             dst == BatteryMap[i][2]
         IN SetBatteries(IF src \in DOMAIN record
                         THEN Put(rec, dst, _invert(record[src]))
                         ELSE rec,
                         record, i + 1)

\* rec after the n-th statement of get_record that assigns to it, rec
\* standing for its value before
get_record_step(n, rec, record, dbm) ==
    LET ts == Val(record["dateTime"])
    IN CASE n = 1 -> Put(rec, "windavg", _get_windavg(dbm, ts))
         [] n = 2 -> Put(rec, "windhi", _get_windhi(dbm, ts))
         [] n = 3 -> Put(rec, "winddiravg", _get_winddiravg(dbm, ts))
         [] n = 4 -> IF Get(rec, "windDir") # None
                     THEN Put(rec, "windDir", NormalizeWindDir(rec["windDir"]))
                     ELSE rec
         [] n = 5 -> Put(rec, "winddiravg", NormalizeWindDir(rec["winddiravg"]))
         [] n = 6 -> Put(rec, "windavg",
                         _convert_windspeed(Get(rec, "windavg"), record["usUnits"]))
         [] n = 7 -> Put(rec, "windhi",
                         _convert_windspeed(Get(rec, "windhi"), record["usUnits"]))
         [] n = 8 -> IF "inTemp" \in DOMAIN rec /\ "inHumidity" \in DOMAIN rec
                     THEN Put(Put(rec, "inheatindex",
                                  heatindexC(rec["inTemp"], rec["inHumidity"])),
                              "indewpoint",
                              dewpointC(rec["inTemp"], rec["inHumidity"]))
                     ELSE rec

\* rec after the first n such statements; it starts as the record in
\* METRICWX units
RECURSIVE get_record_after(_, _, _)
get_record_after(n, record, dbm) ==
    IF n = 0 THEN to_METRICWX(RESTThread_get_record(record, dbm))
    ELSE The({get_record_step(n, rec, record, dbm) :
              rec \in {get_record_after(n - 1, record, dbm)}})

\* calculate derived quantities and other values needed by wcloud
get_record(record, dbm) ==
    IF "usUnits" \notin DOMAIN record \/ "dateTime" \notin DOMAIN record
    THEN Raised("KeyError")
    ELSE Returned(SetBatteries(get_record_after(8, record, dbm), record, 1))

(***************************************************************************)
(* WeatherCloudThread._DATA_MAP and format_url                             *)
(***************************************************************************)

_SERVER_URL == "http://api.weathercloud.net/v01/set"

\* wcloud_name, weewx_name, multiplier, in the order of the literal (the
\* format is '%.0f' for every entry)
_DATA_MAP ==
    << <<"temp", "outTemp", 10>>, <<"hum", "outHumidity", 1>>,
       <<"wdir", "windDir", 1>>, <<"wspd", "windSpeed", 10>>,
       <<"bar", "barometer", 10>>, <<"rain", "dayRain", 10>>,
       <<"rainrate", "rainRate", 10>>, <<"tempin", "inTemp", 10>>,
       <<"humin", "inHumidity", 1>>, <<"uvi", "UV", 10>>,
       <<"solarrad", "radiation", 10>>, <<"et", "ET", 10>>,
       <<"chill", "windchill", 10>>, <<"heat", "heatindex", 10>>,
       <<"dew", "dewpoint", 10>>, <<"battery", "consBatteryVoltage", 100>>,
       <<"temp01", "extraTemp1", 10>>, <<"temp02", "extraTemp2", 10>>,
       <<"temp03", "extraTemp3", 10>>, <<"temp04", "leafTemp1", 10>>,
       <<"temp05", "leafTemp2", 10>>, <<"temp06", "soilTemp1", 10>>,
       <<"temp07", "soilTemp2", 10>>, <<"temp08", "soilTemp3", 10>>,
       <<"temp09", "soilTemp4", 10>>, <<"temp10", "heatingTemp4", 10>>,
       <<"leafwet01", "leafWet1", 1>>, <<"leafwet02", "leafWet2", 1>>,
       <<"hum01", "extraHumid1", 1>>, <<"hum02", "extraHumid2", 1>>,
       <<"soilmoist01", "soilMoist1", 1>>, <<"soilmoist02", "soilMoist2", 1>>,
       <<"soilmoist03", "soilMoist3", 1>>, <<"soilmoist04", "soilMoist4", 1>>,
       <<"wspdhi", "windhi", 10>>, <<"wspdavg", "windavg", 10>>,
       <<"wdiravg", "winddiravg", 1>>, <<"heatin", "inheatindex", 10>>,
       <<"dewin", "indewpoint", 10>>, <<"battery01", "bat01", 1>>,
       <<"battery02", "bat02", 1>>, <<"battery03", "bat03", 1>>,
       <<"battery04", "bat04", 1>>, <<"battery05", "bat05", 1>>
    >>

\* '%.0f' % v: the integer nearest to the exact value of the float, ties to
\* even, after the sign of the float (so -0.4 and -0.0 print as -0)
Format0f(v) ==
    The({The({LET n == IF c > 0 \/ (c = 0 /\ IsOdd(q)) THEN BAdd(q, <<1>>) ELSE q
              IN (IF v.sign = 1 THEN "-" ELSE "") \o Decimal(n) :
              c \in {IF v.exp >= 0 THEN 0 - 1
                     ELSE BCmp(BSub(v.man, ShiftLeft(q, 0 - v.exp)),
                               ShiftLeft(<<1>>, 0 - v.exp - 1))}}) :
         q \in {IF v.exp >= 0 THEN ShiftLeft(v.man, v.exp)
                ELSE ShiftRight(v.man, 0 - v.exp)}})

Pad2(n) == IF n < 10 THEN "0" \o ToString(n) ELSE ToString(n)

\* time.strftime("%H%M", time.gmtime(ts))
strftime_HM(ts) ==
    LET secs == ts % 86400
    IN Pad2(secs \div 3600) \o Pad2((secs % 3600) \div 60)

\* time.strftime("%Y%m%d", time.gmtime(ts)): the civil date of day ts/86400
strftime_Ymd(ts) ==
    LET z == ts \div 86400 + 719468
        era == z \div 146097
        doe == z - era * 146097
        yoe == (doe - doe \div 1460 + doe \div 36524 - doe \div 146096) \div 365
        doy == doe - (365 * yoe + yoe \div 4 - yoe \div 100)
        mp == (5 * doy + 2) \div 153
        d == doy - (153 * mp + 2) \div 5 + 1
        m == IF mp < 10 THEN mp + 3 ELSE mp - 9
        y == yoe + era * 400 + (IF m <= 2 THEN 1 ELSE 0)
    IN ToString(y) \o Pad2(m) \o Pad2(d)

\* str(weewx.__version__) of the host
weewx_version == "3.9.1"

\* the pair added for the i-th entry of _DATA_MAP, if any
DataValue(record, i) ==
    LET key == _DATA_MAP[i][1]
        rkey == _DATA_MAP[i][2]
    IN IF rkey \in DOMAIN record /\ record[rkey] # None
       THEN << <<key, Format0f(Mul(Val(record[rkey]), N(_DATA_MAP[i][3])))>> >>
       ELSE <<>>

\* the pairs added by the loop over the entries lo..hi of _DATA_MAP
RECURSIVE DataValues(_, _, _)
DataValues(record, lo, hi) ==
    IF lo > hi THEN <<>>
    ELSE IF lo = hi THEN DataValue(record, lo)
    ELSE LET mid == (lo + hi) \div 2
         IN DataValues(record, lo, mid) \o DataValues(record, mid + 1, hi)

\* a mutant of DataValue: a None value is sent as the error code -32768
DataValue_sentinel(record, i) ==
    LET key == _DATA_MAP[i][1]
        rkey == _DATA_MAP[i][2]
    IN IF rkey \in DOMAIN record
       THEN << <<key, IF record[rkey] # None
                      THEN Format0f(Mul(Val(record[rkey]), N(_DATA_MAP[i][3])))
                      ELSE "-32768">> >>
       ELSE <<>>

RECURSIVE DataValues_sentinel(_, _, _)
DataValues_sentinel(record, lo, hi) ==
    IF lo > hi THEN <<>>
    ELSE IF lo = hi THEN DataValue_sentinel(record, lo)
    ELSE LET mid == (lo + hi) \div 2
         IN DataValues_sentinel(record, lo, mid)
            \o DataValues_sentinel(record, mid + 1, hi)

format_url_values_sentinel(record, id, key) ==
    << <<"ver", weewx_version>>, <<"type", ToString(251)>>,
       <<"wid", id>>, <<"key", key>>,
       <<"time", strftime_HM(Val(record["dateTime"]))>>,
       <<"date", strftime_Ymd(Val(record["dateTime"]))>> >>
    \o DataValues_sentinel(record, 1, Len(_DATA_MAP))

\* the dict `values` of format_url as the sequence of its (key, value) pairs
\* in insertion order, each value as str() gives it: the six header fields,
\* then one pair for every entry of _DATA_MAP whose weewx field is in the
\* record and not None
format_url_values(record, id, key) ==
    << <<"ver", weewx_version>>, <<"type", ToString(251)>>,
       <<"wid", id>>, <<"key", key>>,
       <<"time", strftime_HM(Val(record["dateTime"]))>>,
       <<"date", strftime_Ymd(Val(record["dateTime"]))>> >>
    \o DataValues(record, 1, Len(_DATA_MAP))

\* the characters quote_plus never escapes: letters, digits and _ . - ~
AlwaysSafe == "ABCDEFGHIJKLMNOPQRSTUVWXYZabcdefghijklmnopqrstuvwxyz0123456789_.-~"

\* urllib quote_plus of one character: kept if safe, a space becomes +, any
\* other (ASCII) character becomes its %XX escape
quote_plus_token(c) ==
    IF IndexOf(c, AlwaysSafe) > 0 THEN c
    ELSE IF c = " " THEN "+"
    ELSE "%" \o Hex2(CharCode(c))

RECURSIVE quote_plus(_)
quote_plus(s) ==
    IF s = "" THEN ""
    ELSE IF Len(s) = 1 THEN quote_plus_token(s)
    ELSE LET half == Len(s) \div 2
         IN quote_plus(SubSeq(s, 1, half)) \o quote_plus(SubSeq(s, half + 1, Len(s)))

\* urlencode(values): quote_plus(k)=quote_plus(v) pairs joined by &
RECURSIVE urlencode(_)
urlencode(values) ==
    IF values = <<>> THEN ""
    ELSE IF Len(values) = 1
    THEN quote_plus(values[1][1]) \o "=" \o quote_plus(values[1][2])
    ELSE LET half == Len(values) \div 2
         IN urlencode(SubSeq(values, 1, half)) \o "&"
            \o urlencode(SubSeq(values, half + 1, Len(values)))

\* the least element of a non-empty set of integers
Min(S) == CHOOSE i \in S : \A j \in S : i <= j

\* s without its longest prefix that has no & (the match of [^\&]*)
SkipToAmp(s) ==
    LET amps == {i \in 1..Len(s) : Char(s, i) = "&"}
    IN IF amps = {} THEN "" ELSE SubSeq(s, Min(amps), Len(s))

\* the places of s where the literal key= matches
MatchKeyEq(s) == {i \in 1..(Len(s) - 3) : SubSeq(s, i, i + 3) = "key="}

\* a mutant of re_sub_key: the pattern lacks the *, so one character of the
\* key is replaced and the rest stays
RECURSIVE re_sub_key_one(_)
re_sub_key_one(s) ==
    LET found == {i \in MatchKeyEq(s) : i + 4 <= Len(s) /\ Char(s, i + 4) # "&"}
    IN IF found = {} THEN s
       ELSE SubSeq(s, 1, Min(found) - 1) \o "key=XXX"
            \o re_sub_key_one(SubSeq(s, Min(found) + 5, Len(s)))

\* re.sub(r"key=[^\&]*", "key=XXX", url): the leftmost match is replaced and
\* the search goes on behind it, so every non-overlapping match, left to
\* right
RECURSIVE re_sub_key(_)
re_sub_key(s) ==
    IF MatchKeyEq(s) = {} THEN s
    ELSE LET i == Min(MatchKeyEq(s))
         IN SubSeq(s, 1, i - 1) \o "key=XXX"
            \o re_sub_key(SkipToAmp(SubSeq(s, i + 4, Len(s))))

\* format_url(record) of a thread with the given id, key and server_url,
\* under weewx.debug = debug: the dict it builds, the url it returns and the
\* lines it writes to the log
format_url(record, thread, debug) ==
    The({The({[values |-> values,
               url |-> url,
               log |-> IF debug >= 2
                       THEN <<logdbg("url: " \o re_sub_key(url))>>
                       ELSE <<>>] :
              url \in {thread.server_url \o "?" \o urlencode(values)}}) :
         values \in {format_url_values(record, thread.id, thread.key)}})

(***************************************************************************)
(* State                                                                   *)
(***************************************************************************)

VARIABLES
    config_dict,     \* the host's configuration
    debug,           \* weewx.debug
    dbm,             \* the archive database
    station,         \* the observations the station reports in every archive record
    constructed,     \* how WeatherCloud.__init__ ended, "NO" before it has run
    archive_queue,   \* self.archive_queue: None until created, then <<the queued records>>
    archive_thread,  \* self.archive_thread: None until created, then <<its fields>>
    bindings,        \* the host events this service has bound a handler to
    events,          \* the archive records the host has dispatched, in order
    push_pc,         \* where the upload thread has been at a dispatch
    now,             \* the host's clock: the time of the latest archive event
    pc,              \* where the upload thread is in its loop
    cur,             \* the record the thread took from the queue
    derived,         \* what get_record gave for cur
    request,         \* what format_url gave for derived
    tries,           \* delivery attempts made for cur
    lastpost,        \* the dateTime of the last record that passed the filter
    dequeued,        \* the records the thread took from the queue, in order
    dropped,         \* the records the backlog filter dropped while reaching cur
    stats,           \* per record taken through the filter: attempts, waits, failures logged, outcome
    syslog           \* the lines wcloud.py wrote to the log

vars == <<config_dict, debug, dbm, station, constructed, archive_queue, archive_thread,
          bindings, events, push_pc, now, pc, cur, derived, request, tries, lastpost,
          dequeued, dropped, stats, syslog>>

host_vars == <<config_dict, debug, dbm, station>>
service_vars == <<constructed, archive_queue, archive_thread, bindings>>
worker_vars == <<pc, cur, derived, request, tries, lastpost, dequeued, dropped,
                 stats>>

(***************************************************************************)
(* Bounds and inputs                                                       *)
(***************************************************************************)

\* archive events the host dispatches in one run
MaxEvents == 3

\* seconds between two archive records of the host
ArchiveInterval == 300

Id1 == "w1"
Key1 == "s3c"
Key2 == "a&k= /#:"
Key3 == "XXX"
Keys == {Key1, Key2, Key3}

\* the options of the WeatherCloud section: a dict from option to value
Account(key) == ("id" :> Id1) @@ ("key" :> key)

\* a configuration of the host with the given WeatherCloud section
Host(section) ==
    ("StdRESTful" :> ("WeatherCloud" :> section))
    @@ ("DataBindings" :> ("wx_binding" :> "archive_sqlite"))
    @@ ("Databases" :> ("archive_sqlite" :> "weewx.sdb"))

\* a configuration of the host without its [DataBindings]
HostWithoutBindings(section) ==
    ("StdRESTful" :> ("WeatherCloud" :> section))
    @@ ("Databases" :> ("archive_sqlite" :> "weewx.sdb"))

PipelineConfigs ==
    { Host(Account(Key1)),
      Host("key" :> Key1),
      Host("id" :> Id1),
      HostWithoutBindings(Account(Key1)),
      HostWithoutBindings("id" :> Id1),
      Host(Account(Key1) @@ ("bogus" :> 1)),
      Host(Account(Key1) @@ ("manager_dict" :> "foo")),
      Host(Account(Key1) @@ ("post_interval" :> 300)),
      Host(Account(Key1) @@ ("post_interval" :> 300) @@ ("max_backlog" :> PyInt(0))),
      Host(Account(Key1) @@ ("post_interval" :> 300) @@ ("max_backlog" :> PyInt(1))),
      Host(Account(Key1) @@ ("post_interval" :> 300) @@ ("max_tries" :> 1)),
      Host(Account(Key1) @@ ("post_interval" :> 300) @@ ("max_tries" :> 2)
            @@ ("retry_wait" :> 7) @@ ("max_backlog" :> PyInt(1))),
      Host(Account(Key1) @@ ("post_interval" :> 300) @@ ("max_tries" :> 2)
            @@ ("log_failure" :> FALSE)),
      Host(Account(Key1) @@ ("post_interval" :> 300) @@ ("stale" :> 300)),
      Host(Account(Key1) @@ ("skip_upload" :> TRUE)) }

RecordConfigs ==
    {Host(Account(k)) : k \in Keys}
    \cup {Host(Account(Key1) @@ ("server_url" :> "http://h/set?key=abc"))}

\* the archive table: two rows inside the ten minutes up to the first record
\* (directions 359 and 360 average to 359.5), one row long before
Rows(t) ==
    << [dateTime |-> t - 86400, windSpeed |-> Some(N(9)), windGust |-> Some(N(12)),
        windDir |-> Some(N(90))],
       [dateTime |-> t - 300, windSpeed |-> Some(N(18)), windGust |-> None,
        windDir |-> Some(N(359))],
       [dateTime |-> t, windSpeed |-> Some(N(36)), windGust |-> Some(N(54)),
        windDir |-> Some(N(360))] >>

\* an archive table whose means are not decimal fractions: speeds 1.0 and 1.1
\* (mean 1.05), directions 359.0, 359.0 and 359.1 (mean 359.0333333333333)
CalmRows(t) ==
    << [dateTime |-> t - 400, windSpeed |-> Some(N(1)), windGust |-> None,
        windDir |-> Some(N(359))],
       [dateTime |-> t - 200, windSpeed |-> Some(D(1, 1)), windGust |-> None,
        windDir |-> Some(N(359))],
       [dateTime |-> t, windSpeed |-> None, windGust |-> None,
        windDir |-> Some(D(359, 1))] >>

\* an archive table whose float means are not the exact means: the speeds
\* 0.1 and 4.6 sum to 4.699999999999999 (mean 2.3499999999999996, ten times
\* that prints as 23 where 23.5 would print as 24), the directions 1.1, 3.2
\* and 3.2 sum to 7.500000000000001 (mean 2.5000000000000004, prints as 3
\* where 2.5 would print as 2)
TieRows(t) ==
    << [dateTime |-> t - 10, windSpeed |-> Some(D(0, 1)), windGust |-> Some(D(0, 1)),
        windDir |-> Some(D(1, 1))],
       [dateTime |-> t - 5, windSpeed |-> Some(D(4, 6)), windGust |-> Some(D(4, 6)),
        windDir |-> Some(D(3, 2))],
       [dateTime |-> t, windSpeed |-> None, windGust |-> None,
        windDir |-> Some(D(3, 2))] >>

FirstTime == 1700000000 + ArchiveInterval

Stores ==
    { [table_name |-> "archive", rows |-> <<>>],
      [table_name |-> "archive", rows |-> SubSeq(Rows(FirstTime), 1, 1)],
      [table_name |-> "archive", rows |-> Rows(FirstTime)],
      [table_name |-> "archive", rows |-> CalmRows(FirstTime)],
      [table_name |-> "archive", rows |-> TieRows(FirstTime)] }

\* raw archive records: every combination of the choices below
UnitChoices == {<<>>, "usUnits" :> Some("US"), "usUnits" :> Some("METRIC"),
                "usUnits" :> Some("METRICWX")}
TimeChoices == {"dateTime" :> Some(FirstTime)}
OutTempChoices == {<<>>, "outTemp" :> None, "outTemp" :> Some(D(21, 5))}
WindDirChoices == {<<>>, "windDir" :> None, "windDir" :> Some(D(359, 5)),
                   "windDir" :> Some(N(370))}
IndoorChoices == {<<>>, ("inTemp" :> Some(D(21, 5))) @@ ("inHumidity" :> None),
                  ("inTemp" :> Some(D(21, 5))) @@ ("inHumidity" :> Some(N(55)))}
BatteryChoices ==
    {<<>>,
     ("windBatteryStatus" :> Some(N(1)))
        @@ ("rainBatteryStatus" :> None) @@ ("outTempBatteryStatus" :> Some(N(1)))
        @@ ("inTempBatteryStatus" :> Some(N(0)))
        @@ ("consBatteryVoltage" :> Some(Float(1015, 1000))),
     ("txBatteryStatus" :> Some(N(1))) @@ ("windBatteryStatus" :> None)
        @@ ("rainBatteryStatus" :> Some(N(0))) @@ ("outTempBatteryStatus" :> Some(N(0)))
        @@ ("inTempBatteryStatus" :> Some(N(1)))
        @@ ("consBatteryVoltage" :> Some(Float(545, 1000)))}

RawRecords ==
    {u @@ t @@ o @@ w @@ i @@ b :
        u \in UnitChoices, t \in TimeChoices, o \in OutTempChoices,
        w \in WindDirChoices, i \in IndoorChoices, b \in BatteryChoices}

\* the observations of the station of the pipeline
PipelineFields ==
    ("outTemp" :> Some(D(21, 5))) @@ ("windDir" :> Some(N(370)))
    @@ ("outHumidity" :> None) @@ ("txBatteryStatus" :> Some(N(0)))

\* the records of the pipeline: the k-th archive record of the host, whole
\* or (a faulty driver) without its unit system
PipelineRecord(k, whole) ==
    ("dateTime" :> Some(1700000000 + k * ArchiveInterval))
    @@ station
    @@ (IF whole THEN "usUnits" :> Some("METRIC") ELSE <<>>)

(***************************************************************************)
(* Construction                                                            *)
(***************************************************************************)

\* weewx.restx.get_site_dict(config_dict, service, *required): the options
\* of the service's section, or None when the section or a required option
\* is missing
get_site_dict(config, service, required) ==
    IF "StdRESTful" \notin DOMAIN config
       \/ service \notin DOMAIN config["StdRESTful"]
    THEN None
    ELSE LET section == config["StdRESTful"][service]
         IN IF required \subseteq DOMAIN section THEN Some(section) ELSE None

\* the parameters of WeatherCloudThread.__init__ that a keyword may name, and
\* those among them without a default
Parameters ==
    {"id", "key", "manager_dict", "server_url", "skip_upload", "post_interval",
     "max_backlog", "stale", "log_success", "log_failure", "timeout",
     "max_tries", "retry_wait"}
Required == {"id", "key", "manager_dict"}

\* a keyword argument of the constructor: the option given, or its default
Kw(site_dict, name, default) ==
    IF name \in DOMAIN site_dict THEN site_dict[name] ELSE default

\* a mutant of WeatherCloudThread_init: max_tries and retry_wait are handed
\* to the base class in each other's place
WeatherCloudThread_init_swapped(queue, site_dict) ==
    IF ~(DOMAIN site_dict \subseteq Parameters) \/ ~(Required \subseteq DOMAIN site_dict)
    THEN Raised("TypeError")
    ELSE Returned(
    [id |-> site_dict["id"], key |-> site_dict["key"],
     server_url |-> Kw(site_dict, "server_url", _SERVER_URL),
     skip_upload |-> to_bool(Kw(site_dict, "skip_upload", FALSE)),
     manager_dict |-> site_dict["manager_dict"],
     post_interval |-> Kw(site_dict, "post_interval", 600),
     max_backlog |-> Kw(site_dict, "max_backlog", MAXSIZE),
     stale |-> IF "stale" \in DOMAIN site_dict THEN Some(site_dict["stale"]) ELSE None,
     log_success |-> Kw(site_dict, "log_success", TRUE),
     log_failure |-> Kw(site_dict, "log_failure", TRUE),
     timeout |-> Kw(site_dict, "timeout", 60),
     max_tries |-> Kw(site_dict, "retry_wait", 5),
     retry_wait |-> Kw(site_dict, "max_tries", 3)])

\* a mutant of WeatherCloudThread_init: max_backlog is not handed to the
\* base class, which keeps its default
WeatherCloudThread_init_nobacklog(queue, site_dict) ==
    IF ~(DOMAIN site_dict \subseteq Parameters) \/ ~(Required \subseteq DOMAIN site_dict)
    THEN Raised("TypeError")
    ELSE Returned(
    [id |-> site_dict["id"], key |-> site_dict["key"],
     server_url |-> Kw(site_dict, "server_url", _SERVER_URL),
     skip_upload |-> to_bool(Kw(site_dict, "skip_upload", FALSE)),
     manager_dict |-> site_dict["manager_dict"],
     post_interval |-> Kw(site_dict, "post_interval", 600),
     max_backlog |-> MAXSIZE,
     stale |-> IF "stale" \in DOMAIN site_dict THEN Some(site_dict["stale"]) ELSE None,
     log_success |-> Kw(site_dict, "log_success", TRUE),
     log_failure |-> Kw(site_dict, "log_failure", TRUE),
     timeout |-> Kw(site_dict, "timeout", 60),
     max_tries |-> Kw(site_dict, "max_tries", 3),
     retry_wait |-> Kw(site_dict, "retry_wait", 5)])

\* WeatherCloudThread.__init__(queue, **site_dict): a keyword that names no
\* parameter, or a parameter without a default that no keyword names, raises
\* TypeError; otherwise the fields of the thread, each keyword argument the
\* option of the site dict or its default
WeatherCloudThread_init(queue, site_dict) ==
    IF ~(DOMAIN site_dict \subseteq Parameters) \/ ~(Required \subseteq DOMAIN site_dict)
    THEN Raised("TypeError")
    ELSE Returned(
    [id |-> site_dict["id"], key |-> site_dict["key"],
     server_url |-> Kw(site_dict, "server_url", _SERVER_URL),
     skip_upload |-> to_bool(Kw(site_dict, "skip_upload", FALSE)),
     manager_dict |-> site_dict["manager_dict"],
     post_interval |-> Kw(site_dict, "post_interval", 600),
     max_backlog |-> Kw(site_dict, "max_backlog", MAXSIZE),
     stale |-> IF "stale" \in DOMAIN site_dict THEN Some(site_dict["stale"]) ELSE None,
     log_success |-> Kw(site_dict, "log_success", TRUE),
     log_failure |-> Kw(site_dict, "log_failure", TRUE),
     timeout |-> Kw(site_dict, "timeout", 60),
     max_tries |-> Kw(site_dict, "max_tries", 3),
     retry_wait |-> Kw(site_dict, "retry_wait", 5)])

\* weewx.manager.get_manager_dict(bindings, databases, name): how to open the
\* archive
get_manager_dict(data_bindings, databases, name) ==
    [binding |-> name, database |-> databases[data_bindings[name]]]

\* the lines 146 and 157 write to the log
VersionLine == loginf("service version is " \o VERSION)
UploadLine(site_dict) == loginf("Data will be uploaded for id=" \o site_dict["id"])

\* lines 150 to 157 of WeatherCloud.__init__, reached with a site dict: the
\* manager dict is set, the queue made, the thread constructed and started,
\* the handler bound.  A host configuration without [DataBindings] or
\* [Databases] raises KeyError before the queue is made; a thread
\* constructor that raises leaves the queue made and nothing else.
Started(section) ==
    IF ~({"DataBindings", "Databases"} \subseteq DOMAIN config_dict)
    THEN /\ constructed' = "KeyError"
         /\ syslog' = Append(syslog, VersionLine)
         /\ UNCHANGED <<archive_queue, archive_thread, bindings>>
    ELSE LET site_dict == Put(section, "manager_dict",
                              get_manager_dict(config_dict["DataBindings"],
                                               config_dict["Databases"],
                                               "wx_binding"))
             made == WeatherCloudThread_init(<<>>, site_dict)
         IN /\ archive_queue' = Some(<<>>)
            /\ IF made.ok
               THEN /\ archive_thread' = Some(made.val)
                    /\ bindings' = bindings \cup {"NEW_ARCHIVE_RECORD"}
                    /\ syslog' = syslog \o <<VersionLine, UploadLine(site_dict)>>
                    /\ constructed' = "RETURNED"
               ELSE /\ syslog' = Append(syslog, VersionLine)
                    /\ constructed' = made.exc
                    /\ UNCHANGED <<archive_thread, bindings>>

\* a mutant of WeatherCloud_init: the site dict is looked at only after the
\* queue is made and the handler bound
WeatherCloud_init_latecheck ==
    /\ constructed = "NO"
    /\ LET site_dict == get_site_dict(config_dict, "WeatherCloud", {"id", "key"})
       IN IF site_dict = None
          THEN /\ archive_queue' = Some(<<>>)
               /\ bindings' = bindings \cup {"NEW_ARCHIVE_RECORD"}
               /\ constructed' = "RETURNED"
               /\ syslog' = Append(syslog, VersionLine)
               /\ UNCHANGED archive_thread
          ELSE Started(Val(site_dict))
    /\ UNCHANGED <<host_vars, events, push_pc, now, worker_vars>>

\* WeatherCloud.__init__(engine, config_dict)
WeatherCloud_init ==
    /\ constructed = "NO"
    /\ LET site_dict == get_site_dict(config_dict, "WeatherCloud", {"id", "key"})
       IN IF site_dict = None
          THEN /\ constructed' = "RETURNED"
               /\ syslog' = Append(syslog, VersionLine)
               /\ UNCHANGED <<archive_queue, archive_thread, bindings>>
          ELSE Started(Val(site_dict))
    /\ UNCHANGED <<host_vars, events, push_pc, now, worker_vars>>

\* a mutant of new_archive_record: the record is put at the head
new_archive_record_head(event) ==
    archive_queue' = Some(<<event.record>> \o Val(archive_queue))

\* WeatherCloud.new_archive_record(event): Queue.put on the unbounded queue
new_archive_record(event) ==
    archive_queue' = Some(Append(Val(archive_queue), event.record))

\* the host archives a record and dispatches NEW_ARCHIVE_RECORD to the
\* handlers bound to it
HostArchiveEvent ==
    /\ constructed # "NO"
    /\ Len(events) < MaxEvents
    /\ \E whole \in BOOLEAN :
         LET record == PipelineRecord(Len(events) + 1, whole)
         IN /\ events' = Append(events, record)
            /\ push_pc' = push_pc \cup {pc}
            /\ now' = Val(record["dateTime"])
            /\ IF "NEW_ARCHIVE_RECORD" \in bindings
               THEN new_archive_record([record |-> record])
               ELSE UNCHANGED archive_queue
    /\ UNCHANGED <<host_vars, constructed, archive_thread, bindings, worker_vars,
                   syslog>>

(***************************************************************************)
(* The upload thread's loop (RESTThread.run_loop of the host, specialised  *)
(* by get_record and format_url): IDLE, FILTERING, ENRICHING, ENCODING,    *)
(* SENDING, RETRY_WAIT                                                     *)
(***************************************************************************)

thread == Val(archive_thread)
queue == Val(archive_queue)
\* what the thread did for a record: delivery attempts made, the seconds of
\* each wait between attempts, failures logged, and how it ended
NewStat == [attempts |-> 0, waits |-> <<>>, failures |-> 0, outcome |-> "pending"]

\* stats with the entry of the current record (the last one taken) changed
SetStat(field, value) ==
    [stats EXCEPT ![Len(stats)] = [@ EXCEPT ![field] = value]]

\* IDLE -> FILTERING: the blocking queue.get()
Dequeue ==
    /\ pc = "IDLE"
    /\ archive_thread # None
    /\ queue # <<>>
    /\ cur' = Some(Head(queue))
    /\ archive_queue' = Some(Tail(queue))
    /\ dequeued' = Append(dequeued, Head(queue))
    /\ stats' = Append(stats, NewStat)
    /\ pc' = "FILTERING"
    /\ UNCHANGED <<host_vars, constructed, archive_thread, bindings, events, push_pc, now,
                   derived, request, tries, lastpost, dropped, syslog>>

Backlogged == IntLess(thread.max_backlog, PyInt(Len(queue)))
Stale == thread.stale # None /\ now - Val(Val(cur)["dateTime"]) > Val(thread.stale)
TooSoon == lastpost # None
           /\ Val(Val(cur)["dateTime"]) - Val(lastpost) < thread.post_interval

\* the record is left out and the thread is back at the queue
Drop(outcome) ==
    /\ stats' = SetStat("outcome", outcome)
    /\ pc' = "IDLE"
    /\ UNCHANGED <<host_vars, service_vars, events, push_pc, now, cur, derived, request,
                   tries, lastpost, dequeued, syslog>>

\* backlog policy: more than max_backlog records wait, the one taken is dropped
FilterBacklog ==
    /\ pc = "FILTERING"
    /\ Backlogged
    /\ dropped' = Append(dropped, Val(cur))
    /\ Drop("backlog")

\* staleness policy: the record is older than the configured maximum age
FilterStale ==
    /\ pc = "FILTERING"
    /\ ~Backlogged /\ Stale
    /\ UNCHANGED dropped
    /\ Drop("stale")

\* post-interval throttling: too soon after the last post
FilterInterval ==
    /\ pc = "FILTERING"
    /\ ~Backlogged /\ ~Stale /\ TooSoon
    /\ UNCHANGED dropped
    /\ Drop("skipped")

\* FILTERING -> ENRICHING
FilterPass ==
    /\ pc = "FILTERING"
    /\ ~Backlogged /\ ~Stale /\ ~TooSoon
    /\ lastpost' = Val(cur)["dateTime"]
    /\ pc' = "ENRICHING"
    /\ UNCHANGED <<host_vars, service_vars, events, push_pc, now, cur, derived, request,
                   tries, dequeued, dropped, stats, syslog>>

\* ENRICHING: get_record(record, dbm); an error is logged and the record left
Enrich ==
    /\ pc = "ENRICHING"
    /\ derived' = get_record(Val(cur), dbm)
    /\ IF derived'.ok
       THEN pc' = "ENCODING" /\ UNCHANGED stats
       ELSE pc' = "IDLE" /\ stats' = SetStat("outcome", "error")
    /\ UNCHANGED <<host_vars, service_vars, events, push_pc, now, cur, request, tries,
                   lastpost, dequeued, dropped, syslog>>

\* ENCODING: format_url(record); with skip_upload the post is not made
Encode ==
    /\ pc = "ENCODING"
    /\ request' = Some(format_url(derived.val, thread, debug))
    /\ syslog' = syslog \o Val(request').log
    /\ tries' = 0
    /\ IF thread.skip_upload
       THEN pc' = "IDLE" /\ stats' = SetStat("outcome", "skipped")
       ELSE pc' = "SENDING" /\ UNCHANGED stats
    /\ UNCHANGED <<host_vars, service_vars, events, push_pc, now, cur, derived, lastpost,
                   dequeued, dropped>>

\* SENDING: one delivery attempt; the endpoint answers 2xx or it does not
Attempt ==
    /\ pc = "SENDING"
    /\ tries' = tries + 1
    /\ \E ok \in BOOLEAN :
         LET made == [stats EXCEPT ![Len(stats)].attempts = @ + 1]
         IN IF ok
            THEN /\ stats' = [made EXCEPT ![Len(stats)].outcome = "posted"]
                 /\ pc' = "IDLE"
            ELSE IF tries + 1 < thread.max_tries
            THEN /\ stats' = made
                 /\ pc' = "RETRY_WAIT"
            ELSE /\ stats' = [made EXCEPT
                                ![Len(stats)].outcome = "failed",
                                ![Len(stats)].failures =
                                    IF thread.log_failure THEN @ + 1 ELSE @]
                 /\ pc' = "IDLE"
    /\ UNCHANGED <<host_vars, service_vars, events, push_pc, now, cur, derived, request,
                   lastpost, dequeued, dropped, syslog>>

\* RETRY_WAIT: sleep(retry_wait), then the next attempt
RetryWait ==
    /\ pc = "RETRY_WAIT"
    /\ stats' = [stats EXCEPT ![Len(stats)].waits = Append(@, thread.retry_wait)]
    /\ pc' = "SENDING"
    /\ UNCHANGED <<host_vars, service_vars, events, push_pc, now, cur, derived, request,
                   tries, lastpost, dequeued, dropped, syslog>>

(***************************************************************************)
(* Specifications                                                          *)
(***************************************************************************)

\* the host has read its configuration and is about to construct the service
Init ==
    /\ config_dict \in PipelineConfigs
    /\ debug \in {0, 2}
    /\ dbm = [table_name |-> "archive", rows |-> Rows(FirstTime)]
    /\ station = PipelineFields
    /\ constructed = "NO"
    /\ archive_queue = None
    /\ archive_thread = None
    /\ bindings = {}
    /\ events = <<>>
    /\ push_pc = {}
    /\ now = 1700000000
    /\ pc = "IDLE"
    /\ cur = None
    /\ derived = None
    /\ request = None
    /\ tries = 0
    /\ lastpost = None
    /\ dequeued = <<>>
    /\ dropped = <<>>
    /\ stats = <<>>
    /\ syslog = <<>>

Next ==
    \/ WeatherCloud_init
    \/ HostArchiveEvent
    \/ Dequeue
    \/ FilterBacklog
    \/ FilterStale
    \/ FilterInterval
    \/ FilterPass
    \/ Enrich
    \/ Encode
    \/ Attempt
    \/ RetryWait

Spec == Init /\ [][Next]_vars

\* the upload thread is a running thread: blocked in queue.get(), it takes a
\* record once one is queued
FairSpec == Spec /\ WF_vars(Dequeue)

\* the site dict WeatherCloud.__init__ hands to the thread under config
SiteDict(config) ==
    Put(config["StdRESTful"]["WeatherCloud"], "manager_dict",
        get_manager_dict(config["DataBindings"], config["Databases"], "wx_binding"))

\* the service was constructed and the thread has taken one archive record
\* through the filter: any record, any archive table, any account key
InitRecord ==
    /\ config_dict \in RecordConfigs
    /\ debug \in {0, 2}
    /\ dbm \in Stores
    /\ station = PipelineFields
    /\ constructed = "RETURNED"
    /\ archive_queue = Some(<<>>)
    /\ archive_thread = Some(WeatherCloudThread_init(<<>>, SiteDict(config_dict)).val)
    /\ bindings = {"NEW_ARCHIVE_RECORD"}
    /\ \E record \in RawRecords :
         /\ events = <<record>>
         /\ push_pc = {"IDLE"}
         /\ cur = Some(record)
         /\ dequeued = <<record>>
         /\ lastpost = record["dateTime"]
    /\ now = FirstTime
    /\ pc = "ENRICHING"
    /\ derived = None
    /\ request = None
    /\ tries = 0
    /\ dropped = <<>>
    /\ stats = <<NewStat>>
    /\ syslog = <<VersionLine, UploadLine(SiteDict(config_dict))>>

NextRecord == Enrich \/ Encode

SpecRecord == InitRecord /\ [][NextRecord]_vars

(***************************************************************************)
(* Claims                                                                  *)
(***************************************************************************)

\* the options of the WeatherCloud section of the configuration
Section == config_dict["StdRESTful"]["WeatherCloud"]

\* the pairs of a payload whose key is k
Pairs(values, k) == {i \in 1..Len(values) : values[i][1] = k}

\* the query string of a url of the thread: what follows server_url and ?
Query(url) == SubSeq(url, Len(thread.server_url) + 2, Len(url))

\* the places of a query string where the parameter k is named
Named(text, k) ==
    {i \in 1..(Len(text) - Len(k)) :
        /\ SubSeq(text, i, i + Len(k)) = k \o "="
        /\ i = 1 \/ Char(text, i - 1) = "&"}

\* the value of the first parameter named k in a query string
ParamValue(text, k) ==
    LET i == Min(Named(text, k))
        rest == SubSeq(text, i + Len(k) + 1, Len(text))
    IN SubSeq(rest, 1, Len(rest) - Len(SkipToAmp(rest)))

\* the byte a %XX escape at the head of s stands for
EscapedByte(s) ==
    16 * (IndexOf(Char(s, 2), HexDigits) - 1) + IndexOf(Char(s, 3), HexDigits) - 1

\* urllib unquote_plus: how the server reads a value of the request
RECURSIVE unquote_plus(_)
unquote_plus(s) ==
    IF s = "" THEN ""
    ELSE IF Head(s) = "+" THEN " " \o unquote_plus(Tail(s))
    ELSE IF Head(s) = "%" /\ Len(s) >= 3
         THEN CharOf(EscapedByte(s)) \o unquote_plus(SubSeq(s, 4, Len(s)))
    ELSE Head(s) \o unquote_plus(Tail(s))

\* the entries of _DATA_MAP whose weewx field is missing from rec or None in it
Missing(rec) ==
    {i \in 1..Len(_DATA_MAP) : Get(rec, _DATA_MAP[i][2]) = None}

\* C1: for every derived record and every entry of the field mapping whose
\* source field is absent from the record or None in it, the payload of
\* format_url has no pair for the entry's wire key (and so no sentinel such as
\* -32768 in its place), and the request text does not name it.
C1_MissingFieldOmitted ==
    request # None =>
        \A i \in Missing(derived.val) :
            /\ Pairs(Val(request).values, _DATA_MAP[i][1]) = {}
            /\ Named(Query(Val(request).url), _DATA_MAP[i][1]) = {}

\* a request was made for a record with a None field (outTemp), an absent
\* field (windDir) and a field with a value, which is sent
C1_Witness ==
    /\ request # None
    /\ "outTemp" \in DOMAIN derived.val /\ derived.val["outTemp"] = None
    /\ "windDir" \notin DOMAIN derived.val
    /\ Get(derived.val, "inTemp") # None
    /\ Pairs(Val(request).values, "tempin") # {}
    /\ Named(Query(Val(request).url), "tempin") # {}

ConfiguredMaxTries == Kw(Section, "max_tries", 3)
ConfiguredRetryWait == Kw(Section, "retry_wait", 5)

ConfiguredLogFailure == Kw(Section, "log_failure", TRUE)

\* the waits between n attempts: n - 1 of them, each of retry_wait seconds
WaitsBetween(n) == [k \in 1..(n - 1) |-> ConfiguredRetryWait]

\* what holds of the records taken so far: no record has more than max_tries
\* attempts; while a record is being delivered, every attempt but the latest
\* was followed by a wait of retry_wait seconds; a record whose delivery
\* failed had exactly max_tries attempts with such a wait between each two
\* and is not in the queue
RetryAccount ==
    /\ \A i \in 1..Len(stats) :
        /\ stats[i].attempts <= ConfiguredMaxTries
        /\ stats[i].outcome = "failed" =>
            /\ stats[i].attempts = ConfiguredMaxTries
            /\ stats[i].waits = WaitsBetween(ConfiguredMaxTries)
            /\ \A j \in 1..Len(queue) : queue[j] # dequeued[i]
            /\ i = Len(stats) => pc = "IDLE"
    /\ pc = "SENDING" =>
        /\ stats[Len(stats)].attempts = tries
        /\ tries < ConfiguredMaxTries
        /\ stats[Len(stats)].waits = WaitsBetween(tries + 1)
    /\ pc = "RETRY_WAIT" =>
        /\ stats[Len(stats)].attempts = tries
        /\ tries < ConfiguredMaxTries
        /\ stats[Len(stats)].waits = WaitsBetween(tries)

\* the step on which the last attempt for a record fails
Exhausted ==
    /\ pc = "SENDING"
    /\ stats'[Len(stats)].outcome = "failed"

\* the i-th record taken failed and a record is queued behind it
FailedWithNext(i) ==
    /\ Len(stats) = i
    /\ stats[i].outcome = "failed"
    /\ archive_queue # None /\ queue # <<>>

\* C2 as stated: every record whose delivery failed has exactly one logged
\* failure (with the attempts and waits of max_tries and retry_wait).
C2_OneFailureLogged ==
    /\ RetryAccount
    /\ \A i \in 1..Len(stats) :
          stats[i].outcome = "failed" => stats[i].failures = 1

\* C2, amended: a record whose delivery failed on every attempt had exactly
\* max_tries attempts (3 by default) with a wait of retry_wait seconds (5 by
\* default) between each two; one failure is logged for it if log_failure is
\* on (the default) and none if it is off; the step of the last failure
\* leaves the thread at the queue with the queue as it was, the record not
\* in it; and if a record is queued behind it the thread takes that record.
C2_RetryExhaustion ==
    /\ [](/\ RetryAccount
          /\ \A i \in 1..Len(stats) :
                /\ stats[i].outcome = "failed" =>
                      stats[i].failures = IF ConfiguredLogFailure THEN 1 ELSE 0
                /\ stats[i].outcome # "failed" => stats[i].failures = 0)
    /\ [][Exhausted =>
            /\ pc' = "IDLE"
            /\ archive_queue' = archive_queue
            /\ archive_thread' = archive_thread
            /\ dequeued' = dequeued]_vars
    /\ \A i \in 1..MaxEvents :
          FailedWithNext(i) ~> (Len(stats) > i /\ dequeued[i + 1] = events[i + 1])

\* with the default max_tries and retry_wait a record failed after three
\* attempts and two waits of five seconds, one failure was logged, and the
\* record queued behind it was taken and posted
C2_Witness ==
    /\ "max_tries" \notin DOMAIN Section
    /\ \E i \in 1..Len(stats) - 1 :
        /\ stats[i].outcome = "failed"
        /\ stats[i].attempts = 3
        /\ stats[i].waits = <<5, 5>>
        /\ stats[i].failures = 1
        /\ stats[i + 1].outcome = "posted"

ConfiguredBacklog == Kw(Section, "max_backlog", MAXSIZE)

\* the step that ends the backlog filtering of the record taken: it passes on
\* to the staleness and interval checks
BacklogFiltered ==
    /\ pc = "FILTERING"
    /\ pc' = "ENRICHING" \/ stats'[Len(stats')].outcome \in {"stale", "skipped"}

\* C3: when the thread has finished the backlog filtering of a record, the
\* queue holds at most max_backlog records, however many the host pushed
\* before; the records dropped are older than the one kept, and the one kept
\* and the queue are the most recent records of the host.
C3_BacklogTrimmed ==
    [][BacklogFiltered =>
        /\ IntLe(PyInt(Len(queue')), ConfiguredBacklog)
        /\ \A i \in 1..Len(dropped') :
              Val(dropped'[i]["dateTime"]) < Val(Val(cur')["dateTime"])
        /\ <<Val(cur')>> \o queue'
              = SubSeq(events', Len(events') - Len(queue'), Len(events'))]_vars

\* with max_backlog = 1 and three records pushed, the first was dropped and
\* the second passed the filter with one record behind it
C3_Witness ==
    /\ "max_backlog" \in DOMAIN Section /\ Section["max_backlog"] = PyInt(1)
    /\ pc = "ENRICHING"
    /\ Len(dropped) = 1
    /\ Len(queue) = 1
    /\ Len(events) = MaxEvents

\* C4: with the account id or key missing from the configuration, the
\* constructed service has no queue, no thread and no bound handler, and no
\* record the host archives afterwards is queued, taken or uploaded.
C4_NotStartedWithoutAccount ==
    (constructed # "NO" /\ ~({"id", "key"} \subseteq DOMAIN Section)) =>
        /\ constructed = "RETURNED"
        /\ archive_queue = None
        /\ archive_thread = None
        /\ bindings = {}
        /\ dequeued = <<>>
        /\ stats = <<>>
        /\ request = None
        /\ pc = "IDLE"

\* the key is missing, the service was constructed and the host has archived
\* two records since
C4_Witness ==
    /\ constructed = "RETURNED"
    /\ "key" \notin DOMAIN Section
    /\ Len(events) >= 2

\* C6: every archive record the host dispatched to the bound handler is in
\* the queue exactly once, at the tail, until the thread takes it, and the
\* thread takes the records in the order of dispatch (dispatched = taken
\* followed by queued); the dispatch is possible whatever the queue holds and
\* wherever the thread is.
C6_QueueFifoNonBlocking ==
    /\ "NEW_ARCHIVE_RECORD" \in bindings => events = dequeued \o queue
    /\ (constructed # "NO" /\ Len(events) < MaxEvents) => ENABLED HostArchiveEvent

\* a record was dispatched while the thread was in a delivery attempt, behind
\* a record still queued
C6_Witness ==
    /\ "NEW_ARCHIVE_RECORD" \in bindings
    /\ "SENDING" \in push_pc
    /\ Len(queue) >= 2
    /\ Len(dequeued) >= 1

\* C7: what format_url writes to the log does not depend on the account key:
\* wherever the logged url has key=, the placeholder XXX follows and the
\* value ends there, the line is the same whatever the key is, nothing is
\* logged below debug level 2, and the url it returns carries the key itself.
C7_KeyRedactedInLog ==
    request # None =>
        LET logged == Val(request).log
        IN /\ syslog = <<VersionLine, UploadLine([id |-> thread.id])>> \o logged
           /\ debug < 2 => logged = <<>>
           /\ debug >= 2 =>
               /\ Len(logged) = 1
               /\ MatchKeyEq(logged[1].msg) # {}
               /\ \A i \in MatchKeyEq(logged[1].msg) :
                     /\ i + 6 <= Len(logged[1].msg)
                     /\ SubSeq(logged[1].msg, i + 4, i + 6) = "XXX"
                     /\ i + 6 = Len(logged[1].msg) \/ Char(logged[1].msg, i + 7) = "&"
               /\ \A k \in Keys :
                     format_url(derived.val, [thread EXCEPT !.key = k], debug).log
                        = logged
           /\ unquote_plus(ParamValue(Query(Val(request).url), "key")) = thread.key

\* the url was logged for a key that holds an &, an =, a space and other
\* reserved characters
C7_Witness ==
    /\ request # None
    /\ debug >= 2
    /\ thread.key = Key2
    /\ Len(syslog) = 3

\* the direction a field of the derived record was normalised from
DirectionIn(field) ==
    IF field = "windDir" THEN Get(Val(cur), "windDir")
    ELSE _get_winddiravg(dbm, Val(Val(cur)["dateTime"]))

\* C8: the normalisation of windDir and winddiravg in get_record takes every
\* direction in [0,719) to a value in [0,359], leaves a value in [0,359] as it
\* is when applied again, and leaves None as None.
C8_WindDirNormalized ==
    (derived # None /\ derived.ok) =>
        \A field \in {"windDir", "winddiravg"} :
            LET d == DirectionIn(field)
                out == Get(derived.val, field)
            IN /\ d = None => out = None
               /\ (d # None /\ Ge(Val(d), N(0)) /\ Lt(Val(d), N(719))) =>
                    /\ out # None
                    /\ Ge(Val(out), N(0)) /\ Le(Val(out), N(359))
                    /\ NormalizeWindDir(out) = out

\* C9: the battery status is inverted, 0 to 1, 1 to 0 and None to None, so
\* that inverting twice gives a 0 or 1 back; get_record sets bat01..bat05 each
\* from its own source field, and only if that field is in the raw record.
C9_BatteryInverted ==
    /\ \A x \in {0, 1} :
        /\ _invert(Some(N(x))) = Some(N(1 - x))
        /\ _invert(_invert(Some(N(x)))) = Some(N(x))
    /\ _invert(None) = None
    /\ (derived # None /\ derived.ok) =>
        \A i \in 1..Len(BatteryMap) :
            LET src == BatteryMap[i][1]
                dst == BatteryMap[i][2]
            IN /\ dst \in DOMAIN derived.val <=> src \in DOMAIN Val(cur)
               /\ src \in DOMAIN Val(cur) =>
                    derived.val[dst] =
                        (IF Val(cur)[src] = None THEN None
                         ELSE IF Val(cur)[src] = Some(N(0)) THEN Some(N(1))
                         ELSE Some(N(0)))

\* a record with a faulty, a sound and a None battery status, and a channel
\* without a field, went through get_record
C9_Witness ==
    /\ derived # None /\ derived.ok
    /\ Get(Val(cur), "rainBatteryStatus") = None
    /\ "rainBatteryStatus" \in DOMAIN Val(cur)
    /\ Get(Val(cur), "outTempBatteryStatus") = Some(N(1))
    /\ Get(Val(cur), "inTempBatteryStatus") = Some(N(0))
    /\ "txBatteryStatus" \notin DOMAIN Val(cur)
    /\ derived.val["bat05"] = Some(N(1))

\* no row of the archive table lies in the ten minutes up to ts
EmptyWindow(ts) ==
    \A i \in 1..Len(dbm.rows) :
        ~(dbm.rows[i].dateTime > ts - 600 /\ dbm.rows[i].dateTime <= ts)

\* C10: whatever the unit system of the record, when the window of windSpeed
\* has no rows the average is None, its conversion to m/s is None, and the
\* payload has no wspdavg pair.
C10_EmptyWindowOmitsAverage ==
    (derived # None /\ derived.ok /\ EmptyWindow(Val(Val(cur)["dateTime"]))) =>
        /\ _get_windavg(dbm, Val(Val(cur)["dateTime"])) = None
        /\ "windavg" \in DOMAIN derived.val /\ derived.val["windavg"] = None
        /\ request # None =>
            /\ Pairs(Val(request).values, "wspdavg") = {}
            /\ Named(Query(Val(request).url), "wspdavg") = {}

\* a request was made for a record in US units whose table has a row, but
\* none in the window
C10_Witness ==
    /\ request # None
    /\ Val(cur)["usUnits"] = Some("US")
    /\ dbm.rows # <<>>
    /\ EmptyWindow(Val(Val(cur)["dateTime"]))

====
